---------------------------- MODULE Spec2Model ----------------------------
(***************************************************************************)
(* Greedy threshold-driven region merging (waterz backend).                *)
(*                                                                         *)
(*   IterativeRegionMerging.hpp  the merging engine: mergeUntil,           *)
(*                               mergeRegions, scoreEdge, getRoot,         *)
(*                               extractSegmentation                       *)
(*   BinQueue.hpp                the bucket priority queue                 *)
(*   HistogramQuantileProvider.hpp  the histogram quantile scoring         *)
(*                               capability                                *)
(*                                                                         *)
(* Scores (ScoreType, a floating point type in the code) are modelled as   *)
(* integers on a fixed grid: only their order and equality are read by the *)
(* engine.  For the engine one grid step is 1/20, so 0.1, 0.2, 0.25 and    *)
(* 0.3 are 2, 4, 5 and 6.                                                  *)
(***************************************************************************)
EXTENDS Integers, Sequences, FiniteSets

VARIABLES
    \* ---- IterativeRegionMerging: the object's fields
    regionGraph,     \* _regionGraph: [u, v : edge id -> node, ordered : BOOLEAN]
    edgeScores,      \* _edgeScores : edge id -> score
    stale,           \* _stale      : edge id -> BOOLEAN
    deleted,         \* _deleted    : edge id -> BOOLEAN
    edgeQueue,       \* _edgeQueue  : edge id -> number of copies in the heap
    rootPaths,       \* _rootPaths  : node -> parent (NoNode: no entry)
    mergedUntil,     \* _mergedUntil
    fn,              \* the edge scoring function object handed to mergeUntil
    assertViolated,  \* assert(newScore >= score) has failed at least once
    \* ---- the caller of the engine
    pc,              \* "idle": between calls; "loop": inside mergeUntil's loop
    threshold,       \* the threshold argument of the running mergeUntil call
    segmentation,    \* the client's volume handed to extractSegmentation
    \* ---- history
    initial,         \* the engine as constructed (never changes)
    lastCall,        \* the last mergeUntil call made: its threshold, and
                     \* whether it took the early return
    extracted,       \* extractSegmentation has been called at least once
    mergeLog,        \* the merge steps performed so far, in order
    dirty,           \* edge id -> since its score was computed an endpoint
                     \* region has grown, the edge was relocated or it has
                     \* taken up the statistics of another edge
    \* ---- BinQueue: the object's fields
    bins,            \* _bins   : bucket index -> queue of elements
    minBin,          \* _minBin : smallest non-empty bucket, -1 when empty
    \* ---- history of the BinQueue
    pushCount,       \* the pushes that returned
    popLog,          \* the elements popped so far, in order
    pushedAfterPop,  \* some push was made after a pop
    lastPush,        \* the last push: its score and whether it threw
    \* ---- HistogramQuantileProvider: the object's fields
    histograms,      \* _histograms : edge id -> bin -> count
    \* ---- history of the provider
    folded,          \* edge id -> the affinities folded into it (a bag)
    lastNotify       \* the last call, when it was a notifyEdgeMerge, and the
                     \* number of observations it moved

engineVars == <<regionGraph, edgeScores, stale, deleted, edgeQueue, rootPaths,
                mergedUntil, fn, assertViolated>>
callerVars == <<pc, threshold, segmentation>>
historyVars == <<initial, lastCall, extracted, mergeLog, dirty>>
queueVars == <<bins, minBin, pushCount, popLog, pushedAfterPop, lastPush>>
providerVars == <<histograms, folded, lastNotify>>
vars == <<engineVars, callerVars, historyVars, queueVars, providerVars>>

---------------------------------------------------------------------------
(* Bounds of the model *)

NumNodes == 4

Nodes == 1..NumNodes
\* map semantics of _rootPaths: NoNode stands for "no entry"
NoNode == 0
NoEdge == -1

\* the thresholds the caller passes and the scores the capability answers
Thresholds == {0, 3, 4, 5, 7}
ScoreLevels == {2, 4, 6}

Min2(a, b) == IF a <= b THEN a ELSE b
Max2(a, b) == IF a >= b THEN a ELSE b
MinOf(S) == CHOOSE x \in S : \A y \in S : x <= y

---------------------------------------------------------------------------
(* RegionGraph: the collaborator of the engine (section 6 of the spec).    *)
(* An edge is a pair of endpoints (u, v); a removed edge has none.  The    *)
(* graph either stores an edge as handed over or with its endpoints in     *)
(* ascending order (g.ordered): the engine reads edge(e).u as the survivor *)
(* of a merge, so both conventions are kept.                               *)

EdgeIds(g) == DOMAIN g.u

IncEdges(g, n) == {e \in EdgeIds(g) : g.u[e] = n \/ g.v[e] = n}

GetOpposite(g, n, e) == IF g.u[e] = n THEN g.v[e] ELSE g.u[e]

FindEdge(g, a, b) ==
    LET found == {e \in IncEdges(g, a) : GetOpposite(g, a, e) = b}
    IN  IF found = {} THEN NoEdge ELSE MinOf(found)

MoveEdge(g, e, a, b) ==
    [g EXCEPT !.u[e] = IF g.ordered THEN Min2(a, b) ELSE a,
              !.v[e] = IF g.ordered THEN Max2(a, b) ELSE b]

RemoveEdge(g, e) == [g EXCEPT !.u[e] = NoNode, !.v[e] = NoNode]

---------------------------------------------------------------------------
(* BinQueue<T, ScoreType, N>.  A score is the rational num / ScoreDen; an   *)
(* element is the ordinal of its push together with the score it was       *)
(* pushed with.                                                            *)

\* the template parameter N (256 by default), instantiated small
N == 3
\* scores are multiples of 1 / ScoreDen
ScoreDen == 4
\* the number of pushes that return
MaxPushes == 3

\* from below -1/(N-1) to above N/(N-1)
ScoreNums == (0 - ScoreDen)..(2 * ScoreDen)

\* (int)(x / d): the conversion of a floating point value to int truncates
\* towards zero
Truncate(x, d) == IF x >= 0 THEN x \div d ELSE 0 - ((0 - x) \div d)

\* mutant of ScoreToIndex: the index is rounded down (floor), not truncated
MutScoreToIndex(num) ==
    LET i == (num * (N - 1)) \div ScoreDen
    IN  [i |-> i, thrown |-> i < 0 \/ i >= N]

\* scoreToIndex(score): the index, and whether BinQueueOutOfBoundsException
\* is thrown
ScoreToIndex(num) ==
    LET i == Truncate(num * (N - 1), ScoreDen)
    IN  [i |-> i, thrown |-> i < 0 \/ i >= N]

\* mutant of Enqueue: the element is put at the front of the bucket
MutEnqueue(q, element) == <<element>> \o q

\* _bins[i].push(element)
Enqueue(q, element) == Append(q, element)

\* mutant of PushedMinBin: the bucket of the push always becomes the minimum
MutPushedMinBin(mb, i) == i

\* the assignment to _minBin in push
PushedMinBin(mb, i) == IF mb = -1 THEN i ELSE Min2(i, mb)

\* top()
Top(b, mb) == Head(b[mb])

\* the scan of pop: the first non-empty bucket from mb on, -1 when none
RECURSIVE NextNonEmpty(_, _)
NextNonEmpty(b, mb) ==
    IF mb >= N THEN -1
    ELSE IF b[mb] # <<>> THEN mb
    ELSE NextNonEmpty(b, mb + 1)

\* pop(): _bins and _minBin as the call leaves them
Popped(b, mb) ==
    LET b1 == [b EXCEPT ![mb] = Tail(@)]
    IN  [bins |-> b1,
         minBin |-> IF b1[mb] = <<>> THEN NextNonEmpty(b1, mb) ELSE mb]

\* empty()
Empty(mb) == mb = -1

RECURSIVE SumLen(_, _)
SumLen(b, i) == IF i >= N THEN 0 ELSE Len(b[i]) + SumLen(b, i + 1)

\* mutant of Size: the sum starts one bucket late
MutSize(b, mb) == IF Empty(mb) THEN 0 ELSE SumLen(b, mb + 1)

\* size()
Size(b, mb) == IF Empty(mb) THEN 0 ELSE SumLen(b, mb)

---------------------------------------------------------------------------
(* HistogramQuantileProvider<RegionGraphType, Q, Precision, Bins>.  An     *)
(* affinity is the rational num / AffDen in [0, 1]; a score is returned as *)
(* the numerator of (bin + 1/2) / Bins over 2 * Bins.                      *)

\* the template parameter Bins (256 by default), instantiated small
Bins == 3
\* affinities are multiples of 1 / AffDen
AffDen == 4
\* the number of edges of the provider's region graph
NumHistEdges == 2
\* the number of addAffinity calls
MaxSamples == 3

HistEdges == 0..(NumHistEdges - 1)
AffNums == 0..AffDen
\* the template parameter Q
Percentiles == 0..100

EmptyBag == [a \in AffNums |-> 0]
NoNotify == [from |-> NoEdge, to |-> NoEdge, moved |-> 0]

RECURSIVE BagSizeFrom(_, _)
BagSizeFrom(bag, a) == IF a \notin DOMAIN bag THEN 0 ELSE bag[a] + BagSizeFrom(bag, a + 1)
BagSize(bag) == BagSizeFrom(bag, 0)

\* Histogram<Bins>: a fixed array of counts
EmptyHistogram == [b \in 0..(Bins - 1) |-> 0]
\* Histogram::inc(bin)
HistInc(h, bin) == [h EXCEPT ![bin] = @ + 1]
\* Histogram::operator+=
HistAdd(h, other) == [b \in DOMAIN h |-> h[b] + other[b]]
\* Histogram::sum()
RECURSIVE HistSumFrom(_, _)
HistSumFrom(h, b) == IF b >= Bins THEN 0 ELSE h[b] + HistSumFrom(h, b + 1)
HistSum(h) == HistSumFrom(h, 0)

\* discretize<int>(affinity, Bins): the bin of an affinity in [0, 1]
Discretize(num) == Min2((num * Bins) \div AffDen, Bins - 1)
\* undiscretize<Precision>(bin, Bins): the value that stands for a bin
Undiscretize(bin) == 2 * bin + 1

\* addAffinity(e, affinity)
AddAffinity(hs, e, num) == [hs EXCEPT ![e] = HistInc(@, Discretize(num))]

\* mutant of NotifyEdgeMerge: the histogram merged away is not cleared
MutNotifyEdgeMerge(hs, from, to) ==
    [hs EXCEPT ![to] = HistAdd(@, hs[from])]

\* notifyEdgeMerge(from, to)
NotifyEdgeMerge(hs, from, to) ==
    LET added == [hs EXCEPT ![to] = HistAdd(@, hs[from])]
    IN  [added EXCEPT ![from] = EmptyHistogram]

\* the loop of operator[]: the first bin from bin on at which the running
\* sum reaches pivot, Bins when none does
RECURSIVE PivotBin(_, _, _, _)
PivotBin(h, pivot, bin, sum) ==
    IF bin >= Bins THEN bin
    ELSE IF sum + h[bin] >= pivot THEN bin
    ELSE PivotBin(h, pivot, bin + 1, sum + h[bin])

\* mutant of QuantileScore: the pivot is one rank too high
MutQuantileScore(hs, Q, e) ==
    LET pivot == (Q * HistSum(hs[e])) \div 100 + 2
    IN  Undiscretize(PivotBin(hs[e], pivot, 0, 0))

\* operator[](e) of the provider instantiated with Q
QuantileScore(hs, Q, e) ==
    LET pivot == (Q * HistSum(hs[e])) \div 100 + 1
    IN  Undiscretize(PivotBin(hs[e], pivot, 0, 0))


---------------------------------------------------------------------------
(* The edge scoring capability handed to mergeUntil, of one of two kinds.  *)
(* "table": a scripted capability that answers first[e] the first time     *)
(* edge e is scored and again[e] from then on.  "hist": the histogram      *)
(* quantile provider instantiated with Q; its scores are numerators over   *)
(* 2 * Bins, and the thresholds of such a run are read on that grid.  Both *)
(* kinds count the calls made and record, in mergedInto, the edge merge    *)
(* notifications they were given.                                          *)

ScoreOf(f, e) ==
    IF f.kind = "table"
    THEN IF f.scored[e] THEN f.again[e] ELSE f.first[e]
    ELSE QuantileScore(f.histograms, f.Q, e)

Scored(f, e) == [f EXCEPT !.scored[e] = TRUE, !.calls = @ + 1]

NotifyNodeMerge(f, b, a) == f

NotifyEdgeMergeFn(f, from, to) ==
    [f EXCEPT !.mergedInto[from] = to,
              !.histograms = IF f.kind = "hist"
                             THEN NotifyEdgeMerge(@, from, to)
                             ELSE @]

---------------------------------------------------------------------------
(* IterativeRegionMerging *)

\* the object's fields as one record
State ==
    [regionGraph |-> regionGraph, edgeScores |-> edgeScores, stale |-> stale,
     deleted |-> deleted, edgeQueue |-> edgeQueue, rootPaths |-> rootPaths,
     mergedUntil |-> mergedUntil, fn |-> fn, assertViolated |-> assertViolated]

SetState(s) ==
    /\ regionGraph' = s.regionGraph
    /\ edgeScores' = s.edgeScores
    /\ stale' = s.stale
    /\ deleted' = s.deleted
    /\ edgeQueue' = s.edgeQueue
    /\ rootPaths' = s.rootPaths
    /\ mergedUntil' = s.mergedUntil
    /\ fn' = s.fn
    /\ assertViolated' = s.assertViolated

\* the constructor
Construct(g, f) ==
    [regionGraph |-> g,
     edgeScores |-> [e \in EdgeIds(g) |-> 0],
     stale |-> [e \in EdgeIds(g) |-> FALSE],
     deleted |-> [e \in EdgeIds(g) |-> FALSE],
     edgeQueue |-> [e \in EdgeIds(g) |-> 0],
     rootPaths |-> [n \in Nodes |-> NoNode],
     mergedUntil |-> 0,
     fn |-> f,
     assertViolated |-> FALSE]

\* mutant of EdgeCompare: the comparison of the scores is turned round
MutEdgeCompare(scores, a, b) ==
    IF scores[a] = scores[b] THEN a > b ELSE scores[a] < scores[b]

\* mutant of EdgeCompare: among equal scores the higher edge id comes first
MutEdgeCompareIds(scores, a, b) ==
    IF scores[a] = scores[b] THEN a < b ELSE scores[a] > scores[b]

\* EdgeCompare::operator(): TRUE when a is to come out of the heap after b
EdgeCompare(scores, a, b) ==
    IF scores[a] = scores[b] THEN a > b ELSE scores[a] > scores[b]

Queued(s) == {e \in DOMAIN s.edgeQueue : s.edgeQueue[e] > 0}

\* _edgeQueue.size()
QueueSize(s) ==
    LET RECURSIVE Sum(_)
        Sum(S) == IF S = {} THEN 0
                  ELSE LET e == MinOf(S) IN s.edgeQueue[e] + Sum(S \ {e})
    IN  Sum(DOMAIN s.edgeQueue)

\* _edgeQueue.top()
QueueTop(s) ==
    CHOOSE e \in Queued(s) :
        \A o \in Queued(s) \ {e} : EdgeCompare(s.edgeScores, o, e)

\* _edgeQueue.pop()
QueuePop(s) == [s EXCEPT !.edgeQueue[QueueTop(s)] = @ - 1]

ScoreEdge(s, e) ==
    LET score == ScoreOf(s.fn, e)
    IN  [s EXCEPT !.fn = Scored(s.fn, e),
                  !.edgeScores[e] = score,
                  !.edgeQueue[e] = @ + 1]

\* the seed phase: scoreEdge(e) for e = from .. edges().size() - 1
RECURSIVE SeedFrom(_, _)
SeedFrom(s, from) ==
    IF from \notin EdgeIds(s.regionGraph) THEN s
    ELSE SeedFrom(ScoreEdge(s, from), from + 1)

\* mutant of AlreadyMerged: a strict comparison
MutAlreadyMerged(s, t) == t < s.mergedUntil

AlreadyMerged(s, t) == t <= s.mergedUntil

\* mutant of NeedsSeed: every call scores and enqueues all edges
MutNeedsSeed(s) == TRUE

NeedsSeed(s) == s.mergedUntil = 0

\* mutant of MoreExpensive: on equal scores the edge of a is kept
MutMoreExpensive(scores, neighborEdge, aNeighborEdge) ==
    scores[neighborEdge] >= scores[aNeighborEdge]

\* _edgeScores[neighborEdge] > _edgeScores[aNeighborEdge]
MoreExpensive(scores, neighborEdge, aNeighborEdge) ==
    scores[neighborEdge] > scores[aNeighborEdge]

\* mutant of MarkStale: an edge moved from b to a is not flagged
MutMarkStale(st, neighborEdge) == st

\* _stale[neighborEdge] = true
MarkStale(st, neighborEdge) == [st EXCEPT ![neighborEdge] = TRUE]

\* mutant of MarkDeleted: the discarded edge is not flagged
MutMarkDeleted(del, edge) == del

\* _deleted[edge] = true
MarkDeleted(del, edge) == [del EXCEPT ![edge] = TRUE]

\* one pass of the second loop of mergeRegions, for neighborEdge of b
UpdateNeighborEdge(s, e, a, b, neighborEdge) ==
    LET g == s.regionGraph
        neighbor == GetOpposite(g, b, neighborEdge)
        aNeighborEdge == FindEdge(g, a, neighbor)
    IN  IF neighborEdge = e THEN s
        ELSE IF aNeighborEdge = NoEdge
        THEN [s EXCEPT !.regionGraph = MoveEdge(g, neighborEdge, a, neighbor),
                       !.stale = MarkStale(@, neighborEdge)]
        ELSE IF MoreExpensive(s.edgeScores, neighborEdge, aNeighborEdge)
        THEN [s EXCEPT !.fn = NotifyEdgeMergeFn(@, neighborEdge, aNeighborEdge),
                       !.deleted = MarkDeleted(@, neighborEdge)]
        ELSE [s EXCEPT !.fn = NotifyEdgeMergeFn(@, aNeighborEdge, neighborEdge),
                       !.regionGraph =
                           MoveEdge(RemoveEdge(g, aNeighborEdge),
                                    neighborEdge, a, neighbor),
                       !.stale = MarkStale(@, neighborEdge),
                       !.deleted = MarkDeleted(@, aNeighborEdge)]

\* the second loop of mergeRegions over neighborEdges, in ascending order of
\* the edge ids (the set after CHOOSE holds one element: s2 and rest stand
\* for the state after this pass and the edges left, computed once)
RECURSIVE UpdateNeighborEdges(_, _, _, _, _)
UpdateNeighborEdges(s, e, a, b, neighborEdges) ==
    IF neighborEdges = {} THEN s
    ELSE CHOOSE r \in
             {UpdateNeighborEdges(s2, e, a, b, rest) :
                 s2 \in {UpdateNeighborEdge(s, e, a, b, MinOf(neighborEdges))},
                 rest \in {neighborEdges \ {MinOf(neighborEdges)}}} : TRUE

\* mutant of SetRootPath: the link is set from a to b
MutSetRootPath(rp, b, a) == [rp EXCEPT ![a] = b]

\* _rootPaths[b] = a
SetRootPath(rp, b, a) == [rp EXCEPT ![b] = a]

\* mergeRegions(e, fn) (the set after CHOOSE holds one element: sv and ev
\* stand for the values of s and e, computed once)
MergeRegions(s, e) ==
    LET Merged(sv, ev) ==
            LET g == sv.regionGraph
                a == g.u[ev]
                b == g.v[ev]
                s1 == [sv EXCEPT !.fn = NotifyNodeMerge(@, b, a),
                                 !.rootPaths = SetRootPath(@, b, a),
                                 !.stale = [x \in DOMAIN sv.stale |->
                                               IF x \in IncEdges(g, a) THEN TRUE
                                               ELSE sv.stale[x]]]
            IN  UpdateNeighborEdges(s1, ev, a, b, IncEdges(g, b))
    IN  CHOOSE r \in {Merged(sv, ev) : sv \in {s}, ev \in {e}} : TRUE

\* mutant of ThresholdExceeded: a score equal to the threshold is merged
MutThresholdExceeded(score, t) == score > t

ThresholdExceeded(score, t) == score >= t

\* the loop condition and the break: TRUE when the loop of mergeUntil ends here
LoopEnds(s, t) ==
    IF QueueSize(s) = 0 THEN TRUE
    ELSE ThresholdExceeded(s.edgeScores[QueueTop(s)], t)

\* mutant of LoopIteration: a deleted edge is left at the top of the queue
MutLoopIteration(s) ==
    LET next == QueueTop(s)
        score == s.edgeScores[next]
        popped == QueuePop(s)
    IN  IF s.deleted[next] THEN s
        ELSE IF s.stale[next]
        THEN LET rescored == ScoreEdge(popped, next)
             IN  [rescored EXCEPT
                     !.stale[next] = FALSE,
                     !.assertViolated = @ \/ ~(rescored.edgeScores[next] >= score)]
        ELSE MergeRegions(popped, next)

\* one pass of the loop of mergeUntil that does not end it
LoopIteration(s) ==
    LET next == QueueTop(s)
        score == s.edgeScores[next]
        popped == QueuePop(s)
    IN  IF s.deleted[next] THEN popped
        ELSE IF s.stale[next]
        THEN LET rescored == ScoreEdge(popped, next)
             IN  [rescored EXCEPT
                     !.stale[next] = FALSE,
                     !.assertViolated = @ \/ ~(rescored.edgeScores[next] >= score)]
        ELSE MergeRegions(popped, next)

RECURSIVE RunLoop(_, _)
RunLoop(s, t) ==
    IF LoopEnds(s, t) THEN [s EXCEPT !.mergedUntil = t]
    ELSE RunLoop(LoopIteration(s), t)

\* a whole call mergeUntil(fn, t)
MergeUntil(s, t) ==
    IF AlreadyMerged(s, t) THEN s
    ELSE RunLoop(IF NeedsSeed(s) THEN SeedFrom(s, 0) ELSE s, t)

IsRoot(rp, id) == rp[id] = NoNode

\* mutant of WalkUp: one step up instead of the walk to the root
MutWalkUp(rp, root) == root

RECURSIVE WalkUp(_, _)
WalkUp(rp, root) == IF IsRoot(rp, root) THEN root ELSE WalkUp(rp, rp[root])

\* mutant of Compress: the entry of the node asked for is erased
MutCompress(rp, id, root) == [rp EXCEPT ![id] = NoNode]

RECURSIVE Compress(_, _, _)
Compress(rp, id, root) ==
    IF id = root THEN rp
    ELSE Compress([rp EXCEPT ![id] = root], rp[id], root)

\* mutant of GetRoot: the parent is returned, not the root
MutGetRoot(rp, id) ==
    IF IsRoot(rp, id) THEN [root |-> id, rootPaths |-> rp]
    ELSE [root |-> rp[id], rootPaths |-> rp]

\* getRoot(id): the value returned and _rootPaths as the call leaves it
GetRoot(rp, id) ==
    IF IsRoot(rp, id) THEN [root |-> id, rootPaths |-> rp]
    ELSE LET root == WalkUp(rp, rp[id])
         IN  [root |-> root,
              rootPaths |-> IF rp[id] # root THEN Compress(rp, id, root) ELSE rp]

\* extractSegmentation(segmentation), from element i on
RECURSIVE ExtractFrom(_, _, _)
ExtractFrom(rp, seg, i) ==
    IF i > Len(seg) THEN [segmentation |-> seg, rootPaths |-> rp]
    ELSE LET r == GetRoot(rp, seg[i])
         IN  ExtractFrom(r.rootPaths, [seg EXCEPT ![i] = r.root], i + 1)

ExtractSegmentation(rp, seg) == ExtractFrom(rp, seg, 1)

\* the region of n: the initial regions merged into n so far
Region(rp, n) == {m \in Nodes : WalkUp(rp, m) = n}

\* between the engine states s and s2 edge x was relocated, a region at one
\* of its ends has grown, or it was the target of a notifyEdgeMerge
Touched(s, s2, x) ==
    \/ s2.regionGraph.u[x] # s.regionGraph.u[x]
    \/ s2.regionGraph.v[x] # s.regionGraph.v[x]
    \/ \E n \in {s2.regionGraph.u[x], s2.regionGraph.v[x]} :
          Region(s2.rootPaths, n) # Region(s.rootPaths, n)
    \/ \E f \in DOMAIN s.fn.mergedInto :
          s2.fn.mergedInto[f] = x /\ s.fn.mergedInto[f] # x
    \/ s2.fn.histograms[x] # s.fn.histograms[x]

---------------------------------------------------------------------------
(* The initial region graphs and scoring capabilities *)

Chain == <<<<1, 2>>, <<2, 3>>, <<3, 4>>>>
Triangle == <<<<1, 2>>, <<2, 3>>, <<1, 3>>>>
Star == <<<<1, 2>>, <<1, 3>>, <<1, 4>>>>
Paw == <<<<1, 2>>, <<2, 3>>, <<1, 3>>, <<3, 4>>>>
Square == <<<<1, 2>>, <<2, 3>>, <<3, 4>>, <<1, 4>>>>

Shapes == {Chain, Triangle, Star, Paw, Square}

\* edge ids are dense and start at 0; an unordered graph is handed its edges
\* with the larger endpoint first
GraphOf(shape, ordered) ==
    [u |-> [e \in 0..(Len(shape) - 1) |->
               IF ordered THEN shape[e + 1][1] ELSE shape[e + 1][2]],
     v |-> [e \in 0..(Len(shape) - 1) |->
               IF ordered THEN shape[e + 1][2] ELSE shape[e + 1][1]],
     ordered |-> ordered]

Drifts == {-2, 0, 2}

TableFn(first, drift) ==
    [kind |-> "table",
     first |-> first,
     again |-> [e \in DOMAIN first |-> Max2(0, first[e] + drift)],
     scored |-> [e \in DOMAIN first |-> FALSE],
     calls |-> 0,
     mergedInto |-> [e \in DOMAIN first |-> NoEdge],
     Q |-> 0,
     histograms |-> [e \in DOMAIN first |-> EmptyHistogram]]

\* the percentiles the provider is instantiated with
Qs == {0, 50, 99}

\* the affinities added to an edge while the graph is built
SampleChoices == {<<0>>, <<AffDen \div 2>>, <<0, AffDen>>}

\* addAffinity(e, affinity) for every affinity of affs
RECURSIVE AddAffinities(_, _, _)
AddAffinities(hs, e, affs) ==
    IF affs = <<>> THEN hs
    ELSE AddAffinities(AddAffinity(hs, e, Head(affs)), e, Tail(affs))

RECURSIVE AddSamplesFrom(_, _, _)
AddSamplesFrom(hs, samples, e) ==
    IF e \notin DOMAIN samples THEN hs
    ELSE AddSamplesFrom(AddAffinities(hs, e, samples[e]), samples, e + 1)

HistFn(Q, samples) ==
    [kind |-> "hist",
     first |-> [e \in DOMAIN samples |-> 0],
     again |-> [e \in DOMAIN samples |-> 0],
     scored |-> [e \in DOMAIN samples |-> FALSE],
     calls |-> 0,
     mergedInto |-> [e \in DOMAIN samples |-> NoEdge],
     Q |-> Q,
     histograms |->
         AddSamplesFrom([e \in DOMAIN samples |-> EmptyHistogram], samples, 0)]

\* the scoring capabilities a graph with the edges of shape is merged with
Fns(shape) ==
    LET E == 0..(Len(shape) - 1)
    IN  {TableFn(first, drift) : first \in [E -> ScoreLevels], drift \in Drifts}
        \cup {HistFn(Q, samples) : Q \in Qs, samples \in [E -> SampleChoices]}

Identity == [i \in 1..NumNodes |-> i]

\* the components a specification does not exercise stay as constructed
EngineUnused ==
    LET s == Construct(GraphOf(Chain, TRUE), TableFn([e \in 0..2 |-> 2], 0))
    IN  /\ regionGraph = s.regionGraph
        /\ edgeScores = s.edgeScores
        /\ stale = s.stale
        /\ deleted = s.deleted
        /\ edgeQueue = s.edgeQueue
        /\ rootPaths = s.rootPaths
        /\ mergedUntil = s.mergedUntil
        /\ fn = s.fn
        /\ assertViolated = s.assertViolated
        /\ pc = "idle"
        /\ threshold = 0
        /\ segmentation = Identity
        /\ initial = s
        /\ lastCall = [arg |-> 0, skipped |-> FALSE]
        /\ extracted = FALSE
        /\ mergeLog = <<>>
        /\ dirty = [e \in EdgeIds(s.regionGraph) |-> FALSE]

QueueUnused ==
    /\ bins = [i \in 0..(N - 1) |-> <<>>]
    /\ minBin = -1
    /\ pushCount = 0
    /\ popLog = <<>>
    /\ pushedAfterPop = FALSE
    /\ lastPush = [num |-> 0, thrown |-> FALSE, made |-> FALSE]

ProviderUnused ==
    /\ histograms = [e \in HistEdges |-> EmptyHistogram]
    /\ folded = [e \in HistEdges |-> EmptyBag]
    /\ lastNotify = NoNotify

NoCall == [arg |-> 0, skipped |-> FALSE]

Init ==
    \E shape \in Shapes, ordered \in BOOLEAN :
      \E f \in Fns(shape) :
        LET s == Construct(GraphOf(shape, ordered), f)
        IN  /\ regionGraph = s.regionGraph
            /\ edgeScores = s.edgeScores
            /\ stale = s.stale
            /\ deleted = s.deleted
            /\ edgeQueue = s.edgeQueue
            /\ rootPaths = s.rootPaths
            /\ mergedUntil = s.mergedUntil
            /\ fn = s.fn
            /\ assertViolated = s.assertViolated
            /\ pc = "idle"
            /\ threshold = 0
            /\ segmentation = Identity
            /\ initial = s
            /\ lastCall = NoCall
            /\ extracted = FALSE
            /\ mergeLog = <<>>
            /\ dirty = [e \in EdgeIds(s.regionGraph) |-> FALSE]
            /\ QueueUnused
            /\ ProviderUnused

---------------------------------------------------------------------------
(* Actions *)

\* mergeUntil(fn, t) with t <= _mergedUntil: the early return
MergeUntilSkip(t) ==
    /\ UNCHANGED <<queueVars, providerVars>>
    /\ pc = "idle"
    /\ AlreadyMerged(State, t)
    /\ lastCall' = [arg |-> t, skipped |-> TRUE]
    /\ UNCHANGED <<engineVars, callerVars, initial, extracted, mergeLog, dirty>>

\* mergeUntil(fn, t) up to the head of the loop
MergeUntilEnter(t) ==
    /\ UNCHANGED <<queueVars, providerVars>>
    /\ pc = "idle"
    /\ ~AlreadyMerged(State, t)
    /\ SetState(IF NeedsSeed(State) THEN SeedFrom(State, 0) ELSE State)
    /\ pc' = "loop"
    /\ threshold' = t
    /\ lastCall' = [arg |-> t, skipped |-> FALSE]
    /\ dirty' = IF NeedsSeed(State) THEN [e \in DOMAIN dirty |-> FALSE]
                ELSE dirty
    /\ UNCHANGED <<segmentation, initial, extracted, mergeLog>>

\* a pass of the loop that pops a deleted edge
DiscardDeleted ==
    /\ UNCHANGED <<queueVars, providerVars>>
    /\ pc = "loop"
    /\ ~LoopEnds(State, threshold)
    /\ deleted[QueueTop(State)]
    /\ \E s2 \in {LoopIteration(State)} : SetState(s2)
    /\ UNCHANGED <<callerVars, historyVars>>

\* a pass of the loop that pops a stale edge and scores it again
RescoreStale ==
    /\ UNCHANGED <<queueVars, providerVars>>
    /\ pc = "loop"
    /\ ~LoopEnds(State, threshold)
    /\ ~deleted[QueueTop(State)]
    /\ stale[QueueTop(State)]
    /\ \E s2 \in {LoopIteration(State)} : SetState(s2)
    /\ dirty' = [dirty EXCEPT ![QueueTop(State)] = FALSE]
    /\ UNCHANGED <<callerVars, initial, lastCall, extracted, mergeLog>>

\* a pass of the loop that merges the two regions of the popped edge
Merge ==
    /\ UNCHANGED <<queueVars, providerVars>>
    /\ pc = "loop"
    /\ ~LoopEnds(State, threshold)
    /\ ~deleted[QueueTop(State)]
    /\ ~stale[QueueTop(State)]
    /\ \E s \in {State}, e \in {QueueTop(State)} :
          \E s2 \in {LoopIteration(s)} :
            /\ SetState(s2)
            /\ mergeLog' = Append(mergeLog,
                                  [edge |-> e,
                                   score |-> s.edgeScores[e],
                                   a |-> s.regionGraph.u[e],
                                   b |-> s.regionGraph.v[e],
                                   resumed |-> s.mergedUntil > 0])
            /\ dirty' = [x \in DOMAIN dirty |->
                            dirty[x] \/ Touched(s, s2, x)]
    /\ UNCHANGED <<callerVars, initial, lastCall, extracted>>

\* the loop ends (queue exhausted or threshold exceeded) and the call returns
MergeUntilReturn ==
    /\ UNCHANGED <<queueVars, providerVars>>
    /\ pc = "loop"
    /\ LoopEnds(State, threshold)
    /\ SetState([State EXCEPT !.mergedUntil = threshold])
    /\ pc' = "idle"
    /\ UNCHANGED <<threshold, segmentation, historyVars>>

\* extractSegmentation on the client's volume
Extract ==
    /\ UNCHANGED <<queueVars, providerVars>>
    /\ pc = "idle"
    /\ LET r == ExtractSegmentation(rootPaths, segmentation)
       IN  /\ segmentation' = r.segmentation
           /\ rootPaths' = r.rootPaths
    /\ extracted' = TRUE
    /\ UNCHANGED <<regionGraph, edgeScores, stale, deleted, edgeQueue,
                   mergedUntil, fn, assertViolated, pc, threshold,
                   initial, lastCall, mergeLog, dirty>>

Next ==
    \/ \E t \in Thresholds : MergeUntilSkip(t)
    \/ \E t \in Thresholds : MergeUntilEnter(t)
    \/ DiscardDeleted
    \/ RescoreStale
    \/ Merge
    \/ MergeUntilReturn
    \/ Extract

Spec == Init /\ [][Next]_vars

\* a step of a running mergeUntil call
LoopStep == DiscardDeleted \/ RescoreStale \/ Merge \/ MergeUntilReturn

\* the runs checked for termination: the graphs of four edges, scripted
\* scores of at most 0.2 at first, the median of one affinity per edge
InitFair ==
    /\ Init
    /\ DOMAIN edgeScores = 0..3
    /\ fn.kind = "table" => \A e \in DOMAIN fn.first : fn.first[e] <= 4
    /\ fn.kind = "hist" =>
           /\ fn.Q = 50
           /\ \A e \in DOMAIN fn.histograms : HistSum(fn.histograms[e]) = 1

\* mergeUntil is synchronous and is not cancelled: a call that has entered
\* its loop keeps taking steps
SpecFair == InitFair /\ [][Next]_vars /\ WF_vars(LoopStep)

---------------------------------------------------------------------------
(* The actions of the BinQueue *)

QueueInit ==
    /\ QueueUnused
    /\ EngineUnused
    /\ ProviderUnused

\* push(element, score) that returns
Push(num) ==
    /\ pushCount < MaxPushes
    /\ ~ScoreToIndex(num).thrown
    /\ LET i == ScoreToIndex(num).i
       IN  /\ bins' = [bins EXCEPT
                          ![i] = Enqueue(@, [id |-> pushCount + 1, num |-> num])]
           /\ minBin' = PushedMinBin(minBin, i)
    /\ pushCount' = pushCount + 1
    /\ pushedAfterPop' = (pushedAfterPop \/ popLog # <<>>)
    /\ lastPush' = [num |-> num, thrown |-> FALSE, made |-> TRUE]
    /\ UNCHANGED <<popLog, engineVars, callerVars, historyVars, providerVars>>

\* push(element, score) that throws BinQueueOutOfBoundsException
PushThrows(num) ==
    /\ ScoreToIndex(num).thrown
    /\ lastPush' = [num |-> num, thrown |-> TRUE, made |-> TRUE]
    /\ UNCHANGED <<bins, minBin, pushCount, popLog, pushedAfterPop,
                   engineVars, callerVars, historyVars, providerVars>>

\* top() and pop() on a queue that is not empty (the caller's precondition:
\* on an empty queue both index _bins with -1)
Pop ==
    /\ ~Empty(minBin)
    /\ popLog' = Append(popLog, Top(bins, minBin))
    /\ bins' = Popped(bins, minBin).bins
    /\ minBin' = Popped(bins, minBin).minBin
    /\ UNCHANGED <<pushCount, pushedAfterPop, lastPush,
                   engineVars, callerVars, historyVars, providerVars>>

QueueNext ==
    \/ \E num \in ScoreNums : Push(num)
    \/ \E num \in ScoreNums : PushThrows(num)
    \/ Pop

SpecQueue == QueueInit /\ [][QueueNext]_vars

---------------------------------------------------------------------------
(* The actions of the provider *)

Samples == LET RECURSIVE Sum(_)
               Sum(e) == IF e \notin HistEdges THEN 0
                         ELSE BagSize(folded[e]) + Sum(e + 1)
           IN  Sum(0)

ProviderInit ==
    /\ ProviderUnused
    /\ EngineUnused
    /\ QueueUnused

AddAffinityCall(e, num) ==
    /\ Samples < MaxSamples
    /\ histograms' = AddAffinity(histograms, e, num)
    /\ folded' = [folded EXCEPT ![e][num] = @ + 1]
    /\ lastNotify' = NoNotify
    /\ UNCHANGED <<engineVars, callerVars, historyVars, queueVars>>

NotifyEdgeMergeCall(from, to) ==
    /\ histograms' = NotifyEdgeMerge(histograms, from, to)
    /\ folded' = [folded EXCEPT
                     ![to] = [a \in AffNums |-> folded[to][a] + folded[from][a]],
                     ![from] = EmptyBag]
    /\ lastNotify' = [from |-> from, to |-> to, moved |-> BagSize(folded[from])]
    /\ UNCHANGED <<engineVars, callerVars, historyVars, queueVars>>

ProviderNext ==
    \/ \E e \in HistEdges, num \in AffNums : AddAffinityCall(e, num)
    \/ \E from, to \in HistEdges : NotifyEdgeMergeCall(from, to)

SpecProvider == ProviderInit /\ [][ProviderNext]_vars

---------------------------------------------------------------------------
(* Properties of the merging engine *)

LogEdges == [i \in 1..Len(mergeLog) |-> mergeLog[i].edge]

IsPrefix(p, q) == Len(p) <= Len(q) /\ \A i \in 1..Len(p) : p[i] = q[i]

\* C1: whenever mergeUntil has returned and extractSegmentation was not
\* called, the engine (region graph, scores, stale and deleted flags, queue,
\* forest, mergedUntil and the scoring capability) is in the state that one
\* call mergeUntil(fn, mergedUntil) on the engine as constructed ends in,
\* whatever increasing thresholds the calls made so far were given.
C1_ResumedEqualsDirect ==
    (pc = "idle" /\ mergedUntil > 0 /\ ~extracted)
        => State = MergeUntil(initial, mergedUntil)

\* two calls t1 < t2 have returned and each of them merged regions
C1_Witness ==
    /\ pc = "idle"
    /\ ~extracted
    /\ lastCall = [arg |-> mergedUntil, skipped |-> FALSE]
    /\ \E i, j \in 1..Len(mergeLog) :
          ~mergeLog[i].resumed /\ mergeLog[j].resumed

\* a step that is a call of mergeUntil
CallStep == pc = "idle" /\ (pc' = "loop" \/ lastCall' # lastCall)

\* C2: a call mergeUntil(fn, t) with t <= mergedUntil returns at once, makes
\* no call of the scoring function and leaves the region graph, the scores,
\* the flags, the queue, the forest and mergedUntil as they were.
C2_SkipIsNoOp ==
    [][(CallStep /\ lastCall'.arg <= mergedUntil)
          => (pc' = "idle" /\ UNCHANGED <<engineVars, segmentation>>)]_vars

\* a second call with the threshold of the call before it, after merges
C2_Witness ==
    /\ pc = "idle"
    /\ lastCall = [arg |-> mergedUntil, skipped |-> TRUE]
    /\ mergedUntil > 0
    /\ Len(mergeLog) > 0

\* C3: for every merge step performed so far, absorbing b into a, getRoot(b)
\* and getRoot(a) return the same node, in the state right after the step
\* and in every later state.
C3_AbsorbedSharesRoot ==
    \A i \in 1..Len(mergeLog) :
        GetRoot(rootPaths, mergeLog[i].b).root
            = GetRoot(rootPaths, mergeLog[i].a).root

\* a survivor of one merge was absorbed by a later merge, and the volume was
\* extracted after that
C3_Witness ==
    /\ pc = "idle"
    /\ extracted
    /\ \E i, j \in 1..Len(mergeLog) :
          /\ i < j
          /\ mergeLog[j].b = mergeLog[i].a
          /\ segmentation[mergeLog[i].b] = mergeLog[j].a

ExtractTwice(rp, seg) ==
    LET once == ExtractSegmentation(rp, seg)
    IN  ExtractSegmentation(once.rootPaths, once.segmentation)

\* C4: in every state of the forest getRoot(getRoot(x)) = getRoot(x) for
\* every node x, and extractSegmentation applied twice to a volume (the
\* client's, or the initial segmentation) gives the volume that one
\* application gives.
C4_ExtractIdempotent ==
    /\ \A x \in Nodes :
          LET r == GetRoot(rootPaths, x)
          IN  GetRoot(r.rootPaths, r.root).root = r.root
    /\ \A seg \in {segmentation, Identity} :
          ExtractTwice(rootPaths, seg).segmentation
              = ExtractSegmentation(rootPaths, seg).segmentation

\* the client's volume has been extracted, and the forest holds a path of
\* two links that no getRoot has compressed yet
C4_Witness ==
    /\ pc = "idle"
    /\ extracted
    /\ segmentation # Identity
    /\ \E x \in Nodes :
          ~IsRoot(rootPaths, x) /\ ~IsRoot(rootPaths, rootPaths[x])

\* the chain 1-2-3-4 with its edges scored 0.1, 0.3 and 0.2, every time
C5_Scenario ==
    /\ {initial.regionGraph.u[0], initial.regionGraph.v[0]} = {1, 2}
    /\ {initial.regionGraph.u[1], initial.regionGraph.v[1]} = {2, 3}
    /\ {initial.regionGraph.u[2], initial.regionGraph.v[2]} = {3, 4}
    /\ DOMAIN initial.regionGraph.u = 0..2
    /\ initial.fn.kind = "table"
    /\ initial.fn.first = [e \in 0..2 |-> <<2, 6, 4>>[e + 1]]
    /\ initial.fn.again = initial.fn.first

\* C5: on the chain scored 0.1, 0.3, 0.2, as long as no threshold above 0.25
\* is given, edge 1-2 is merged first, edge 3-4 second and edge 2-3 never;
\* once mergeUntil(fn, 0.25) has returned both merges are done and
\* extractSegmentation maps 1 and 2 to one id, 3 and 4 to another.
C5_ChainExample ==
    (C5_Scenario /\ mergedUntil <= 5 /\ threshold <= 5)
        => /\ IsPrefix(LogEdges, <<0, 2>>)
           /\ (pc = "idle" /\ mergedUntil = 5)
                 => LET seg == ExtractSegmentation(rootPaths, Identity).segmentation
                    IN  /\ LogEdges = <<0, 2>>
                        /\ seg[1] = seg[2]
                        /\ seg[3] = seg[4]
                        /\ seg[1] # seg[3]

\* mergeUntil(fn, 0.25) was the one call made on the chain, and the volume
\* was extracted after it
C5_Witness ==
    /\ C5_Scenario
    /\ pc = "idle"
    /\ mergedUntil = 5
    /\ lastCall = [arg |-> 5, skipped |-> FALSE]
    /\ Len(mergeLog) = 2
    /\ \A i \in 1..Len(mergeLog) : ~mergeLog[i].resumed
    /\ extracted
    /\ segmentation[1] = segmentation[2]
    /\ segmentation[3] = segmentation[4]

\* a step of the loop that merges two regions, and the edge it merges
MergeStep == pc = "loop" /\ rootPaths' # rootPaths
MergedEdge == QueueTop(State)

\* the pairs <<edge of b, edge of a>> that lead to one neighbor and collapse
\* when edge e is merged
Collapsing(s, e) ==
    LET g == s.regionGraph
        a == g.u[e]
        b == g.v[e]
    IN  {<<x, FindEdge(g, a, GetOpposite(g, b, x))>> :
            x \in {x \in IncEdges(g, b) \ {e} :
                      FindEdge(g, a, GetOpposite(g, b, x)) # NoEdge}}

\* after the step, survivor has taken up discarded and leads from a to neighbor
Collapsed(survivor, discarded, a, neighbor) ==
    /\ deleted'[discarded]
    /\ fn'.mergedInto[discarded] = survivor
    /\ stale'[survivor]
    /\ {regionGraph'.u[survivor], regionGraph'.v[survivor]} = {a, neighbor}

\* every pair collapsing in this step ends with the cheaper edge as the
\* survivor, and on equal scores with the edge of a (tieKeepsA) or of b
CollapseRule(tieKeepsA) ==
    MergeStep =>
        LET e == MergedEdge
            a == regionGraph.u[e]
            b == regionGraph.v[e]
        IN  \A pair \in Collapsing(State, e) :
                LET bEdge == pair[1]
                    aEdge == pair[2]
                    neighbor == GetOpposite(regionGraph, b, bEdge)
                    keepsA == \/ edgeScores[aEdge] < edgeScores[bEdge]
                              \/ /\ tieKeepsA
                                 /\ edgeScores[aEdge] = edgeScores[bEdge]
                IN  IF keepsA THEN Collapsed(aEdge, bEdge, a, neighbor)
                    ELSE Collapsed(bEdge, aEdge, a, neighbor)

\* C11 as stated: when the edge of b and the edge of a to a shared neighbor
\* collapse, the edge with the lower cached score survives, on equal scores
\* the edge of a; the other edge is flagged deleted and notifyEdgeMerge
\* (discarded, survivor) is called, the survivor is flagged stale and leads
\* from a to the neighbor.
C11_TieKeepsEdgeOfA == [][CollapseRule(TRUE)]_vars

\* C11 as amended: the same, but on equal cached scores the edge of b is the
\* survivor (it is moved to a) and the edge of a is discarded.
C11_TieKeepsEdgeOfB == [][CollapseRule(FALSE)]_vars

\* a merge has just collapsed two edges of equal cached score: the edge
\* discarded was removed from the graph (it was the edge of a), the other is
\* stale, queued and leads to the survivor of the merge
C11_Witness ==
    /\ pc = "loop"
    /\ mergeLog # <<>>
    /\ \E d \in DOMAIN deleted :
          /\ deleted[d]
          /\ regionGraph.u[d] = NoNode
          /\ fn.mergedInto[d] # NoEdge
          /\ LET s == fn.mergedInto[d]
             IN  /\ ~deleted[s]
                 /\ stale[s]
                 /\ edgeQueue[s] > 0
                 /\ edgeScores[s] = edgeScores[d]
                 /\ mergeLog[Len(mergeLog)].a
                       \in {regionGraph.u[s], regionGraph.v[s]}

\* C12: a merge is made only on an edge whose cached score is below the
\* threshold of the running call; between calls every edge in the queue has
\* a cached score of at least mergedUntil; the step that ends the loop
\* leaves the queue as it is and sets mergedUntil to the threshold.
C12_MergesBelowThreshold ==
    /\ [][MergeStep => edgeScores[MergedEdge] < threshold]_vars
    /\ [](pc = "idle" =>
             \A e \in Queued(State) : edgeScores[e] >= mergedUntil)
    /\ [][(pc = "loop" /\ pc' = "idle")
             => (edgeQueue' = edgeQueue /\ mergedUntil' = threshold)]_vars

\* a call has merged regions and was stopped by an edge whose cached score
\* is the threshold; the edge is still in the queue
C12_Witness ==
    /\ pc = "idle"
    /\ mergeLog # <<>>
    /\ ~mergeLog[Len(mergeLog)].resumed
    /\ Queued(State) # {}
    /\ edgeScores[QueueTop(State)] = mergedUntil

\* C13: an edge in the queue that is neither deleted nor stale has not been
\* touched since its score was computed; a merge is never made on a stale or
\* deleted edge; a pass of the loop that pops a stale edge only scores it,
\* clears its flag and puts it back, the graph and the forest stay as they
\* are; after a merge every edge incident to the survivor is stale.
C13_LazyInvalidation ==
    /\ [](\A e \in DOMAIN dirty :
             (edgeQueue[e] > 0 /\ ~deleted[e] /\ ~stale[e]) => ~dirty[e])
    /\ [][MergeStep => (~stale[MergedEdge] /\ ~deleted[MergedEdge])]_vars
    /\ [][(pc = "loop" /\ pc' = "loop"
              /\ stale[MergedEdge] /\ ~deleted[MergedEdge])
             => /\ UNCHANGED <<regionGraph, rootPaths, deleted, edgeQueue>>
                /\ stale' = [stale EXCEPT ![MergedEdge] = FALSE]
                /\ edgeScores' = [edgeScores EXCEPT
                                     ![MergedEdge] = ScoreOf(fn, MergedEdge)]
                /\ fn'.calls = fn.calls + 1]_vars
    /\ [][MergeStep =>
             \A x \in IncEdges(regionGraph', regionGraph.u[MergedEdge]) :
                 stale'[x]]_vars

\* inside the loop, after a merge: one edge moved by the merge has been
\* scored again and waits in the queue, another is still stale
C13_Witness ==
    /\ pc = "loop"
    /\ mergeLog # <<>>
    /\ \E x, y \in DOMAIN stale :
          /\ edgeQueue[x] > 0 /\ ~deleted[x] /\ ~stale[x]
          /\ regionGraph.u[x] # initial.regionGraph.u[x]
                \/ regionGraph.v[x] # initial.regionGraph.v[x]
          /\ edgeQueue[y] > 0 /\ ~deleted[y] /\ stale[y]

\* the node reached from n by at most k parent links
RECURSIVE Climb(_, _, _)
Climb(rp, n, k) ==
    IF k = 0 \/ IsRoot(rp, n) THEN n ELSE Climb(rp, rp[n], k - 1)

\* the nodes getRoot(id) visits below the root
RECURSIVE PathOf(_, _)
PathOf(rp, id) == IF IsRoot(rp, id) THEN {} ELSE {id} \cup PathOf(rp, rp[id])

\* C14: from every node the parent links lead, in at most NumNodes steps, to
\* a node without an entry; an entry is added only by a merge step (for the
\* absorbed node, pointing at the survivor) and an existing entry is only
\* rewritten, outside mergeUntil, to the root of its node, never removed;
\* getRoot(x) returns the root of x, leaves the root of every node as it is
\* and leaves every node it visited pointing at the root.
C14_ForestAcyclic ==
    /\ [](\A n \in Nodes : IsRoot(rootPaths, Climb(rootPaths, n, NumNodes)))
    /\ [][\A n \in Nodes :
             rootPaths'[n] # rootPaths[n] =>
                 IF IsRoot(rootPaths, n)
                 THEN /\ MergeStep
                      /\ n = regionGraph.v[MergedEdge]
                      /\ rootPaths'[n] = regionGraph.u[MergedEdge]
                 ELSE /\ pc = "idle" /\ pc' = "idle"
                      /\ rootPaths'[n] = WalkUp(rootPaths, n)]_vars
    /\ [](\A x \in Nodes :
             LET r == GetRoot(rootPaths, x)
             IN  /\ r.root = WalkUp(rootPaths, x)
                 /\ \A n \in Nodes :
                       WalkUp(r.rootPaths, n) = WalkUp(rootPaths, n)
                 /\ \A n \in PathOf(rootPaths, x) : r.rootPaths[n] = r.root)

\* extractSegmentation has compressed a path: a node absorbed by one merge
\* now points at a node other than the survivor of that merge, and another
\* path of two links is not compressed yet
C14_Witness ==
    /\ extracted
    /\ \E i \in 1..Len(mergeLog) :
          /\ rootPaths[mergeLog[i].b] # mergeLog[i].a
          /\ rootPaths[mergeLog[i].b] = WalkUp(rootPaths, mergeLog[i].a)
    /\ \E n \in Nodes :
          ~IsRoot(rootPaths, n) /\ ~IsRoot(rootPaths, rootPaths[n])

\* C16: a call of mergeUntil that has entered its loop returns, and the step
\* that ends the loop is taken with the queue empty or with a cached score
\* of at least the threshold at the top of the queue.
C16_MergeUntilTerminates ==
    /\ (pc = "loop") ~> (pc = "idle")
    /\ [][(pc = "loop" /\ pc' = "idle")
             => \/ QueueSize(State) = 0
                \/ edgeScores[QueueTop(State)] >= threshold]_vars

\* a call has returned with the queue exhausted, after it merged regions,
\* discarded a deleted edge and scored stale edges again
C16_Witness ==
    /\ pc = "idle"
    /\ QueueSize(State) = 0
    /\ mergeLog # <<>>
    /\ \E d \in DOMAIN deleted : deleted[d]
    /\ fn.calls > Cardinality(DOMAIN edgeScores)

\* C17: between calls, extractSegmentation applied to the client's volume
\* (the initial volume, or what earlier extractions at lower merge levels
\* made of it) gives the volume that one extractSegmentation gives on the
\* initial volume.
C17_ExtractionComposes ==
    pc = "idle" =>
        ExtractSegmentation(rootPaths, segmentation).segmentation
            = ExtractSegmentation(rootPaths, Identity).segmentation

\* the volume was extracted after a first call had merged regions, and a
\* later call has merged a region the volume names into another
C17_Witness ==
    /\ pc = "idle"
    /\ extracted
    /\ segmentation # Identity
    /\ \E i, j \in 1..Len(mergeLog) :
          /\ ~mergeLog[i].resumed
          /\ mergeLog[j].resumed
          /\ \E k \in 1..NumNodes : segmentation[k] = mergeLog[j].b

\* C18: a merge is made on the edge with the smallest cached score of all
\* edges in the queue, the lowest edge id among those of that score; and as
\* long as no rescoring has returned less than the cached score, the scores
\* at which the merges were made, over all calls, never decrease.
C18_CheapestFirst ==
    /\ [][MergeStep =>
             \A x \in Queued(State) :
                 \/ edgeScores[MergedEdge] < edgeScores[x]
                 \/ /\ edgeScores[MergedEdge] = edgeScores[x]
                    /\ MergedEdge <= x]_vars
    /\ [](~assertViolated =>
             \A i, j \in 1..Len(mergeLog) :
                 i < j => mergeLog[i].score <= mergeLog[j].score)

\* three merges over two calls: the first two at one score, the edge with
\* the lower id first, the third at a higher score in the later call, after
\* stale edges were scored again
C18_Witness ==
    /\ ~assertViolated
    /\ Len(mergeLog) = 3
    /\ mergeLog[1].score = mergeLog[2].score
    /\ mergeLog[1].edge < mergeLog[2].edge
    /\ mergeLog[2].score < mergeLog[3].score
    /\ mergeLog[3].resumed
    /\ fn.calls > Cardinality(DOMAIN edgeScores)

\* C19: when the scoring capability is the histogram quantile provider, no
\* rescoring of a stale edge has returned less than the cached score; and
\* for its histograms as they stand, Q in Qs and any two edges,
\* notifyEdgeMerge(from, to) leaves the edge to with a score of at least the
\* smaller of the scores the two edges had before.
C19_QuantileRescoringMonotone ==
    fn.kind = "hist" =>
        /\ ~assertViolated
        /\ \A from, to \in DOMAIN fn.histograms, Q \in Qs :
              from # to =>
                  QuantileScore(NotifyEdgeMerge(fn.histograms, from, to), Q, to)
                      >= Min2(QuantileScore(fn.histograms, Q, from),
                              QuantileScore(fn.histograms, Q, to))

\* driven by the provider, an edge has taken up the histogram of an edge
\* discarded by a merge and was scored again after that, higher than at first
C19_Witness ==
    /\ fn.kind = "hist"
    /\ \E d \in DOMAIN deleted :
          /\ deleted[d]
          /\ fn.mergedInto[d] # NoEdge
          /\ LET s == fn.mergedInto[d]
             IN  /\ ~deleted[s]
                 /\ ~stale[s]
                 /\ HistSum(fn.histograms[s]) >= 2
                 /\ edgeScores[s] = QuantileScore(fn.histograms, fn.Q, s)
                 /\ edgeScores[s] > QuantileScore(initial.fn.histograms, fn.Q, s)

\* the edges in the queue that are not flagged deleted
LiveQueued == {e \in DOMAIN edgeQueue : edgeQueue[e] > 0 /\ ~deleted[e]}

\* the two ends of edge e
Ends(g, e) == {g.u[e], g.v[e]}

\* some edge of the initial graph joins the groups of the roots r1 and r2
InitiallyAdjacent(r1, r2) ==
    \E o \in EdgeIds(initial.regionGraph) :
        {WalkUp(rootPaths, initial.regionGraph.u[o]),
         WalkUp(rootPaths, initial.regionGraph.v[o])} = {r1, r2}

\* C20: once the queue is seeded, every edge in it that is not deleted is in
\* it once, joins two different roots and is the only such edge between its
\* two roots; two different roots are joined by such an edge exactly when an
\* edge of the initial graph joins their groups; and every merge is made on
\* an edge whose ends a and b are two different roots.
C20_ContractionConsistent ==
    /\ []((pc = "loop" \/ mergedUntil > 0) =>
             /\ \A e \in LiveQueued :
                   /\ edgeQueue[e] = 1
                   /\ regionGraph.u[e] # regionGraph.v[e]
                   /\ \A n \in Ends(regionGraph, e) :
                         n \in Nodes /\ IsRoot(rootPaths, n)
                   /\ \A f \in LiveQueued \ {e} :
                         Ends(regionGraph, f) # Ends(regionGraph, e)
             /\ \A r1, r2 \in Nodes :
                   (r1 # r2 /\ IsRoot(rootPaths, r1) /\ IsRoot(rootPaths, r2))
                       => ((\E e \in LiveQueued :
                               Ends(regionGraph, e) = {r1, r2})
                             <=> InitiallyAdjacent(r1, r2)))
    /\ [][MergeStep =>
             /\ regionGraph.u[MergedEdge] # regionGraph.v[MergedEdge]
             /\ IsRoot(rootPaths, regionGraph.u[MergedEdge])
             /\ IsRoot(rootPaths, regionGraph.v[MergedEdge])]_vars

\* inside the loop, after a merge that collapsed two edges: the discarded
\* edge is still in the queue, flagged deleted, and two edges that are not
\* deleted wait in the queue, one of them moved to the survivor
C20_Witness ==
    /\ pc = "loop"
    /\ mergeLog # <<>>
    /\ \E d \in DOMAIN deleted : deleted[d] /\ edgeQueue[d] > 0
    /\ Cardinality(LiveQueued) >= 2
    /\ \E e \in LiveQueued :
          /\ Ends(regionGraph, e) # Ends(initial.regionGraph, e)
          /\ mergeLog[Len(mergeLog)].a \in Ends(regionGraph, e)

---------------------------------------------------------------------------
(* Properties of the BinQueue *)

InUnit(num) == 0 <= num /\ num < ScoreDen

\* every score pushed so far lies in [0, 1)
AllInUnit ==
    /\ \A i \in 1..Len(popLog) : InUnit(popLog[i].num)
    /\ \A b \in 0..(N - 1) : \A k \in 1..Len(bins[b]) : InUnit(bins[b][k].num)

BinOf(num) == Truncate(num * (N - 1), ScoreDen)

PoppedFifoInBucket ==
    \A i, j \in 1..Len(popLog) :
        (i < j /\ BinOf(popLog[i].num) = BinOf(popLog[j].num))
            => popLog[i].id < popLog[j].id

\* C6 as stated: with all pushes made before the first pop and all scores in
\* [0, 1), the scores come out in non-decreasing order, first in first out
\* within a bucket.
C6_PopsInScoreOrder ==
    (~pushedAfterPop /\ AllInUnit)
        => /\ \A i, j \in 1..Len(popLog) :
                  i < j => popLog[i].num <= popLog[j].num
           /\ PoppedFifoInBucket

\* C6 as amended: with all pushes made before the first pop and all scores in
\* [0, 1), the elements come out in non-decreasing order of their bucket
\* index (int)(score * (N - 1)), and the elements of one bucket come out in
\* the order of their pushes, whatever their scores.
C6_PopsInBucketOrder ==
    (~pushedAfterPop /\ AllInUnit)
        => /\ \A i, j \in 1..Len(popLog) :
                  i < j => BinOf(popLog[i].num) <= BinOf(popLog[j].num)
           /\ PoppedFifoInBucket

\* three pushes, then pops until the queue is empty: two of the elements
\* shared a bucket and came out with the higher score first, a third came
\* from another bucket
C6_Witness ==
    /\ ~pushedAfterPop
    /\ AllInUnit
    /\ Empty(minBin)
    /\ Len(popLog) >= 3
    /\ \E i, j \in 1..Len(popLog) :
          /\ i < j
          /\ BinOf(popLog[i].num) = BinOf(popLog[j].num)
          /\ popLog[i].num > popLog[j].num
    /\ \E i, j \in 1..Len(popLog) :
          BinOf(popLog[i].num) < BinOf(popLog[j].num)

C8_SizeIsPushesLessPops ==
    /\ Size(bins, minBin) = pushCount - Len(popLog)
    /\ Empty(minBin) <=> (pushCount = Len(popLog))

\* pushes and pops interleaved: three pushes and one pop, the two elements
\* left lie in different buckets
C8_Witness ==
    /\ pushedAfterPop
    /\ pushCount = 3
    /\ Len(popLog) = 1
    /\ \E b1, b2 \in 0..(N - 1) : b1 # b2 /\ bins[b1] # <<>> /\ bins[b2] # <<>>

\* C15: the cached minimum is -1 and every bucket is empty, or it is the
\* smallest index in [0, N) of a bucket that is not empty.
C15_MinBinIsSmallest ==
    IF minBin = -1
    THEN \A b \in 0..(N - 1) : bins[b] = <<>>
    ELSE /\ minBin \in 0..(N - 1)
         /\ bins[minBin] # <<>>
         /\ \A b \in 0..(minBin - 1) : bins[b] = <<>>

\* a pop has emptied the minimum bucket and the scan has moved the cached
\* minimum up to the bucket of an element pushed before
C15_Witness ==
    /\ popLog # <<>>
    /\ minBin > 0
    /\ BinOf(popLog[Len(popLog)].num) < minBin
    /\ bins[minBin] # <<>>
    /\ pushCount = Len(popLog) + 1

---------------------------------------------------------------------------
(* Properties of the histogram quantile provider *)

\* C9: the counts of every edge's histogram add up to the number of
\* affinities folded into the edge (added to it, or to an edge merged into
\* it), the histogram of the edge just merged away is all zero, and merging
\* either of two edges into the other gives the same total.
C9_TotalIsObservations ==
    /\ \A e \in HistEdges : HistSum(histograms[e]) = BagSize(folded[e])
    /\ lastNotify # NoNotify => histograms[lastNotify.from] = EmptyHistogram
    /\ \A e1, e2 \in HistEdges :
          e1 # e2 =>
              HistSum(NotifyEdgeMerge(histograms, e1, e2)[e2])
                  = HistSum(NotifyEdgeMerge(histograms, e2, e1)[e1])

\* an edge with observations of its own has just taken up two observations
\* of another edge
C9_Witness ==
    /\ lastNotify # NoNotify
    /\ lastNotify.from # lastNotify.to
    /\ lastNotify.moved >= 2
    /\ HistSum(histograms[lastNotify.to]) > lastNotify.moved

TheSample(bag) == CHOOSE a \in DOMAIN bag : bag[a] = 1

\* C10: for an edge that holds exactly one affinity and for every Q in
\* 0..100, the score of the edge is the value that stands for the bin the
\* affinity was discretized into.
C10_SingleSampleScore ==
    \A e \in HistEdges :
        BagSize(folded[e]) = 1 =>
            \A Q \in Percentiles :
                QuantileScore(histograms, Q, e)
                    = Undiscretize(Discretize(TheSample(folded[e])))

=============================================================================
